---- MODULE Spec2Model ----
(***************************************************************************)
(* Emergency network simulator (src/5a.py): the working graph self.G, its  *)
(* backup self.G_original, the handlers that mutate the graph on the       *)
(* controlling thread, the worker threads started by _run_task and the     *)
(* result queue drained by _check_queue.                                   *)
(*                                                                         *)
(* A networkx call made by the code (add_node, add_edge, remove_node,      *)
(* copy, has_path, ...) is modelled by what the library does to the graph  *)
(* the code hands it, on the dict-of-dict structure the library keeps:     *)
(* g.node maps a node to its attributes, g.adj maps a node to the map from *)
(* its neighbours to the edge attributes.                                  *)
(***************************************************************************)
EXTENDS Integers, Sequences, FiniteSets, TLC

\* ApplicationConfig.NODE_COUNT
NODE_COUNT == 8

\* Bounds of the model: worker threads started in one behaviour, the number
\* of nodes that may be missing at once while workers run, and the highest
\* node that fails while workers run.
MaxTasks == 2
MaxFailed == 1
MaxFailNode == 3

VARIABLES
    heap,          \* the graph objects: object name -> graph
    G,             \* self.G: the name of the object the attribute is bound to
    G_original,    \* self.G_original: likewise
    metrics,       \* self.metrics: None or a NetworkMetrics record
    restored,      \* history: the last mutation was a reset that brought nodes back
    simulated,     \* history: how the latest _on_simulate_failure call ended
    tasks,         \* worker threads: task id -> position and locals
    result_queue,  \* self.result_queue (queue.Queue, FIFO)
    enqueued,      \* history: every message ever put, in put order
    delivered,     \* history: every message _check_queue has handled, in order
                   \* (both keep a message's type, task and title: see Header)
    armed          \* a self.after(100, self._check_queue) timer is pending

vars == <<heap, G, G_original, metrics, restored, simulated, tasks,
          result_queue, enqueued, delivered, armed>>

graphVars == <<heap, G, G_original, metrics, restored, simulated>>
queueVars == <<result_queue, enqueued, delivered, armed>>

----------------------------------------------------------------------------
(* networkx.Graph as the code uses it *)

NoAttrs == [k \in {} |-> k]

\* nx.Graph(): no nodes, no edges
EmptyGraph == [node |-> NoAttrs, adj |-> NoAttrs]

Nodes(g) == DOMAIN g.node

\* A remove_node that forgets the neighbours' entries for n.
remove_node_keep_edges(g, n) ==
    [node |-> [m \in Nodes(g) \ {n} |-> g.node[m]],
     adj  |-> [m \in DOMAIN g.adj \ {n} |-> g.adj[m]]]

\* G.remove_node(n): nbrs = list(adj[n]); del node[n]; for u in nbrs:
\* del adj[u][n]; del adj[n]
remove_node(g, n) ==
    LET nbrs == DOMAIN g.adj[n]
    IN  [node |-> [m \in Nodes(g) \ {n} |-> g.node[m]],
         adj  |-> [m \in DOMAIN g.adj \ {n} |->
                      IF m \in nbrs
                      THEN [x \in DOMAIN g.adj[m] \ {n} |-> g.adj[m][x]]
                      ELSE g.adj[m]]]

\* G.nodes() is iterated in insertion order; the program inserts 1..NODE_COUNT
\* in ascending order and copy() keeps the order, so "seen before u" is "< u".
\* G.edges(): for n, nbrs in adj.items(): for nbr in nbrs: if nbr not in seen:
\* yield (n, nbr); seen.add(n)   -- each edge once, as <<u, v>>
Edges(g) ==
    UNION {{<<u, v>> : v \in {x \in DOMAIN g.adj[u] :
                                 ~(x \in DOMAIN g.adj /\ x < u)}} : u \in DOMAIN g.adj}

\* G.edges(data=True)
EdgeData(g) == {<<e[1], e[2], g.adj[e[1]][e[2]]>> : e \in Edges(g)}

\* every (u, v) the adjacency holds, both directions
AdjPairs(g) == UNION {{<<u, v>> : v \in DOMAIN g.adj[u]} : u \in DOMAIN g.adj}

\* A copy whose node loop stops one node early.
copy_drops_last(g) ==
    LET keep == {n \in Nodes(g) : \E m \in Nodes(g) : n < m}
    IN  [node |-> [n \in keep |-> g.node[n]],
         adj  |-> [u \in keep |-> [v \in DOMAIN g.adj[u] \cap keep |-> g.adj[u][v]]]]

\* G.copy(): a new graph object; add_nodes_from gives it every node with a copy
\* of its attributes, add_edges_from every adjacency entry (u, v, d.copy()),
\* stored under both adj[u][v] and adj[v][u] and adding a missing endpoint
copy(g) ==
    LET pairs == AdjPairs(g) \cup {<<e[2], e[1]>> : e \in AdjPairs(g)}
        ends  == {e[1] : e \in pairs}
        data(u, v) == IF <<u, v>> \in AdjPairs(g) THEN g.adj[u][v] ELSE g.adj[v][u]
    IN  [node |-> [n \in Nodes(g) \cup ends |->
                      IF n \in Nodes(g) THEN g.node[n] ELSE NoAttrs],
         adj  |-> [u \in Nodes(g) \cup ends |->
                      [v \in {e[2] : e \in {x \in pairs : x[1] = u}} |-> data(u, v)]]]

----------------------------------------------------------------------------
(* _initialize_graph *)

\* the edge table of _initialize_graph: (u, v, weight, capacity)
edges ==
    << <<1, 2, 4, 100>>, <<1, 3, 3, 100>>, <<2, 4, 5, 80>>,
       <<3, 4, 6, 60>>,  <<3, 5, 2, 120>>, <<5, 6, 4, 90>>,
       <<6, 7, 3, 110>>, <<7, 8, 2, 100>>, <<4, 8, 7, 50>> >>

NodeAttrs == [status |-> "active", load |-> "0.5"]
EdgeAttrs(w, cap) == [weight |-> w, capacity |-> cap, utilization |-> "0.3"]

\* the graph _initialize_graph leaves in self.G:
\*   for i in range(1, NODE_COUNT + 1): self.G.add_node(i, status="active", load=0.5)
\*   for u, v, w, cap in edges: self.G.add_edge(u, v, weight=w, capacity=cap, ...)
\* add_edge stores the attributes under adj[u][v] and adj[v][u]; a later row for
\* the same pair overwrites an earlier one
InitialGraph ==
    LET rows(n, m) == {k \in 1..Len(edges) :
                          \/ edges[k][1] = n /\ edges[k][2] = m
                          \/ edges[k][1] = m /\ edges[k][2] = n}
        last(n, m) == CHOOSE k \in rows(n, m) : \A j \in rows(n, m) : j <= k
        ends       == {edges[k][1] : k \in 1..Len(edges)} \cup
                      {edges[k][2] : k \in 1..Len(edges)}
        nodes      == (1..NODE_COUNT) \cup ends
    IN  [node |-> [n \in nodes |->
                      IF n \in 1..NODE_COUNT THEN NodeAttrs ELSE NoAttrs],
         adj  |-> [n \in nodes |->
                      [m \in {x \in nodes : rows(n, x) # {}} |->
                          EdgeAttrs(edges[last(n, m)][3], edges[last(n, m)][4])]]]

----------------------------------------------------------------------------
(* reads of the graph: the networkx queries the handlers and tasks make *)

Neighbors(g, n) == IF n \in DOMAIN g.adj THEN DOMAIN g.adj[n] ELSE {}

RECURSIVE Reach(_, _, _)
\* breadth-first search: the nodes reached from `seen`, `frontier` being the
\* nodes found last
Reach(g, seen, frontier) ==
    IF frontier = {} THEN seen
    ELSE LET next == UNION {Neighbors(g, n) : n \in frontier} \ seen
         IN  Reach(g, seen \cup next, next)

Reachable(g, s) == Reach(g, {s}, {s})

\* nx.has_path / nx.shortest_path raise NodeNotFound when an endpoint is not
\* in the graph (has_path catches NetworkXNoPath only)
NodeNotFound(g, s, t) == s \notin Nodes(g) \/ t \notin Nodes(g)

\* A has_path whose search stops after the first hop.
has_path_one_hop(g, s, t) == t \in {s} \cup Neighbors(g, s)

\* nx.has_path(G, s, t), for endpoints that are in the graph
has_path(g, s, t) == t \in Reachable(g, s)

RECURSIVE Bfs(_, _, _, _)
\* breadth-first search from a source: dist maps the nodes found so far to
\* their distance in edges, `frontier` are the nodes at distance d
Bfs(g, dist, frontier, d) ==
    IF frontier = {} THEN dist
    ELSE LET next == UNION {Neighbors(g, n) : n \in frontier} \ DOMAIN dist
         IN  Bfs(g, [n \in next |-> d + 1] @@ dist, next, d + 1)

\* nx.single_source_shortest_path_length(G, s) without weights: the distance
\* to every node reached from s
HopDistances(g, s) == Bfs(g, (s :> 0), {s}, 0)

RECURSIVE SumOver(_, _)
\* sum of f[x] over the set S
SumOver(f, S) ==
    IF S = {} THEN 0
    ELSE LET x == CHOOSE y \in S : TRUE IN f[x] + SumOver(f, S \ {x})

Max(S) == CHOOSE x \in S : \A y \in S : y <= x

\* G.degree(n): a self-loop counts twice
Degree(g, n) ==
    Cardinality(DOMAIN g.adj[n]) + (IF n \in DOMAIN g.adj[n] THEN 1 ELSE 0)

number_of_edges(g) == Cardinality(Edges(g))

RECURSIVE AllHopDistances(_, _)
\* the distances from every node of `todo`: source -> (node reached -> distance)
AllHopDistances(g, todo) ==
    IF todo = {} THEN NoAttrs
    ELSE LET u == CHOOSE x \in todo : TRUE
         IN  (u :> HopDistances(g, u)) @@ AllHopDistances(g, todo \ {u})

\* nx.is_connected(G), for a graph with at least one node: a search from one
\* node reaches every node.  dist is AllHopDistances of the graph.
is_connected(g, dist) ==
    LET s == CHOOSE n \in Nodes(g) : \A m \in Nodes(g) : n <= m
    IN  DOMAIN dist[s] = Nodes(g)

\* nx.number_connected_components(G): one component per smallest member
number_connected_components(g, dist) ==
    Cardinality({n \in Nodes(g) : \A m \in DOMAIN dist[n] : n <= m})

----------------------------------------------------------------------------
(* nx.maximum_flow(self.G, 1, 8, capacity='capacity') *)

\* the residual network the library builds for an undirected graph: an arc
\* in each direction of every edge, each with the edge's capacity
Residual(g) == [p \in AdjPairs(g) |-> g.adj[p[1]][p[2]].capacity]

RECURSIVE AugmentingTree(_, _, _)
\* breadth-first search over the arcs with residual capacity left: parent maps
\* every node found to the node it was found from (the source to itself)
AugmentingTree(res, parent, frontier) ==
    LET found == {v \in {p[2] : p \in DOMAIN res} \ DOMAIN parent :
                     \E u \in frontier : <<u, v>> \in DOMAIN res /\ res[<<u, v>>] > 0}
        from(v) == CHOOSE u \in frontier :
                      /\ <<u, v>> \in DOMAIN res /\ res[<<u, v>>] > 0
                      /\ \A w \in frontier :
                            (<<w, v>> \in DOMAIN res /\ res[<<w, v>>] > 0) => u <= w
    IN  IF found = {} THEN parent
        ELSE AugmentingTree(res, [v \in found |-> from(v)] @@ parent, found)

RECURSIVE ArcsTo(_, _, _)
\* the arcs of the tree path from the source s to node v
ArcsTo(parent, s, v) ==
    IF v = s THEN {} ELSE {<<parent[v], v>>} \cup ArcsTo(parent, s, parent[v])

Min(S) == CHOOSE x \in S : \A y \in S : x <= y

RECURSIVE Augment(_, _, _, _)
\* push flow along shortest augmenting paths until none is left; the value of
\* the flow pushed so far is `value`
Augment(res, s, t, value) ==
    LET parent == AugmentingTree(res, (s :> s), {s})
    IN  IF t \notin DOMAIN parent THEN value
        ELSE LET arcs == ArcsTo(parent, s, t)
                 b    == Min({res[a] : a \in arcs})
                 next == [p \in DOMAIN res |->
                            IF p \in arcs THEN res[p] - b
                            ELSE IF <<p[2], p[1]>> \in arcs THEN res[p] + b
                            ELSE res[p]]
             IN  Augment(next, s, t, value + b)

\* A flow computation that stops after its first augmenting path.
maximum_flow_one_path(g, s, t) ==
    LET parent == AugmentingTree(Residual(g), (s :> s), {s})
    IN  IF t \notin DOMAIN parent THEN 0
        ELSE Min({Residual(g)[a] : a \in ArcsTo(parent, s, t)})

\* the flow value nx.maximum_flow(g, s, t, capacity='capacity') returns, for
\* s and t in the graph.  Whatever method the library runs, the value is that
\* of a flow no augmenting path can increase.
maximum_flow(g, s, t) == Augment(Residual(g), s, t, 0)

----------------------------------------------------------------------------
(* nx.coloring.greedy_color(self.G, strategy="largest_first") *)

RECURSIVE LargestFirst(_, _)
\* strategy_largest_first: sorted(G, key=G.degree, reverse=True).  The sort is
\* stable, so nodes of equal degree keep the order G iterates them in, which is
\* ascending (see Edges).  `todo` are the nodes not yet placed.
LargestFirst(g, todo) ==
    IF todo = {} THEN <<>>
    ELSE LET u == CHOOSE n \in todo :
                     \A m \in todo :
                        \/ Degree(g, m) < Degree(g, n)
                        \/ Degree(g, m) = Degree(g, n) /\ n <= m
         IN  <<u>> \o LargestFirst(g, todo \ {u})

RECURSIVE ColorNodes(_, _, _)
\* for u in nodes: neighbour_colors = {colors[v] for v in G[u] if v in colors};
\* colors[u] = the first of 0, 1, 2, ... that is not among them
ColorNodes(g, order, colors) ==
    IF order = <<>> THEN colors
    ELSE LET u == Head(order)
             neighbour_colors ==
                 {colors[v] : v \in Neighbors(g, u) \cap DOMAIN colors}
             color == CHOOSE c \in 0..Cardinality(neighbour_colors) :
                         /\ c \notin neighbour_colors
                         /\ \A d \in 0..(c - 1) : d \in neighbour_colors
         IN  ColorNodes(g, Tail(order), (u :> color) @@ colors)

\* A coloring that never looks at the neighbours' colors.
greedy_color_blind(g) == [n \in Nodes(g) |-> 0]

\* colors_map = nx.coloring.greedy_color(self.G, strategy="largest_first");
\* an empty dict for a graph without nodes
greedy_color(g) == ColorNodes(g, LargestFirst(g, Nodes(g)), NoAttrs)

\* max(colors_map.values()) + 1, the chromatic number the report gives, for a
\* colors_map that is not empty
chromatic_number(colors_map) ==
    Max({colors_map[n] : n \in DOMAIN colors_map}) + 1

----------------------------------------------------------------------------
(* nx.minimum_spanning_tree(self.G, algorithm="prim") *)

Weight(g, e) == g.adj[e[1]][e[2]].weight

RECURSIVE PrimRuns(_, _, _, _)
\* prim_mst_edges: from a start node, again and again the lightest edge (times
\* sign) from a visited node to one not visited joins the tree; when none is
\* left and nodes remain, a new start node is taken.  Which of several
\* lightest edges leaves the heap first depends on the order of the adjacency
\* dicts, which this graph value does not keep, so every one of them is
\* followed: the result is the set of edge sets a run can yield.  The start
\* node does not change that set.
PrimRuns(g, sign, visited, tree) ==
    LET frontier == {e \in Edges(g) : (e[1] \in visited) # (e[2] \in visited)}
        lightest == {e \in frontier :
                        \A f \in frontier :
                           sign * Weight(g, e) <= sign * Weight(g, f)}
        nodes    == Nodes(g) \ visited
    IN  IF frontier # {}
        THEN UNION {PrimRuns(g, sign, visited \cup {e[1], e[2]}, tree \cup {e}) :
                       e \in lightest}
        ELSE IF nodes # {}
        THEN PrimRuns(g, sign, visited \cup {Min(nodes)}, tree)
        ELSE {tree}

\* A spanning tree computed with the sign of the weights turned round.
maximum_spanning_tree(g) == PrimRuns(g, 0 - 1, {}, {})

\* the edge sets mst.edges() can be for
\* mst = nx.minimum_spanning_tree(g, algorithm="prim"); mst has every node of
\* g, and no edge when g has no node
minimum_spanning_tree(g) == PrimRuns(g, 1, {}, {})

\* sum(d['weight'] for u, v, d in mst.edges(data=True))
total_weight(g, tree) == SumOver([e \in tree |-> Weight(g, e)], tree)

----------------------------------------------------------------------------
(* nx.dijkstra_path, nx.dijkstra_path_length, nx.all_pairs_dijkstra_path_length *)

\* the cost of the edge (u, v): its `weight` attribute, or 1 when the call
\* names no weight
Cost(g, weight, u, v) == IF weight = "none" THEN 1 ELSE g.adj[u][v][weight]

RECURSIVE DijkstraRun(_, _, _, _)
\* _dijkstra_multisource: dist holds the final distances, seen the best
\* distance found so far for every node reached.  The nearest node not yet
\* final becomes final and its edges are relaxed; nodes that no path reaches
\* never enter dist.
DijkstraRun(g, weight, dist, seen) ==
    LET fringe == DOMAIN seen \ DOMAIN dist
    IN  IF fringe = {} THEN dist
        ELSE LET v == CHOOSE n \in fringe :
                         \A m \in fringe :
                            seen[n] < seen[m] \/ (seen[n] = seen[m] /\ n <= m)
                 relaxed == {u \in Neighbors(g, v) \ DOMAIN dist :
                                u \notin DOMAIN seen
                                \/ seen[v] + Cost(g, weight, v, u) < seen[u]}
             IN  DijkstraRun(g, weight, (v :> seen[v]) @@ dist,
                             [u \in relaxed |-> seen[v] + Cost(g, weight, v, u)]
                                @@ seen)

\* nx.single_source_dijkstra_path_length(g, s, weight=...): node -> distance,
\* for the nodes a path from s reaches
dijkstra_lengths(g, weight, s) == DijkstraRun(g, weight, NoAttrs, (s :> 0))

RECURSIVE PathsBack(_, _, _, _, _)
\* the paths from s to v along which every edge is one that gave its end node
\* its final distance
PathsBack(g, weight, dist, s, v) ==
    IF v = s THEN {<<s>>}
    ELSE UNION {{Append(p, v) : p \in PathsBack(g, weight, dist, s, u)} :
                   u \in {x \in Neighbors(g, v) \cap DOMAIN dist :
                             dist[x] + Cost(g, weight, x, v) = dist[v]}}

\* A shortest path that counts edges and not their weights.
shortest_path_unweighted(g, s, t) ==
    PathsBack(g, "none", dijkstra_lengths(g, "none", s), s, t)

\* the paths nx.dijkstra_path(g, s, t, weight='weight') can return, for s in
\* the graph and t reached from s.  Between paths of equal length the library
\* keeps the one it finds first, which depends on the order of the adjacency
\* dicts, not kept here: each of them is a possible result.
dijkstra_path(g, s, t) ==
    PathsBack(g, "weight", dijkstra_lengths(g, "weight", s), s, t)

\* nx.dijkstra_path_length(g, s, t, weight='weight'), likewise
dijkstra_path_length(g, s, t) == dijkstra_lengths(g, "weight", s)[t]

\* An all-pairs computation that counts edges and not their weights.
all_pairs_hop_length(g) ==
    [n \in Nodes(g) |-> dijkstra_lengths(g, "none", n)]

\* path_lengths = dict(nx.all_pairs_dijkstra_path_length(g, weight='weight')):
\* for every node n the dict single_source_dijkstra_path_length(g, n), which
\* has the nodes that a path from n reaches and no others
all_pairs_dijkstra_path_length(g) ==
    [n \in Nodes(g) |-> dijkstra_lengths(g, "weight", n)]

\* list(zip(path, path[1:])): the edges along a path
PathEdges(path) == {<<path[i], path[i + 1]>> : i \in 1..(Len(path) - 1)}

RECURSIVE SimplePaths(_, _, _)
\* every path of g that starts with `path` and ends in t without meeting a
\* node twice
SimplePaths(g, path, t) ==
    LET last == path[Len(path)]
    IN  IF last = t THEN {path}
        ELSE UNION {SimplePaths(g, Append(path, n), t) :
                       n \in Neighbors(g, last) \ {path[i] : i \in DOMAIN path}}

\* the sum of the weights along a path
PathWeight(g, path) ==
    SumOver([e \in PathEdges(path) |-> Weight(g, e)], PathEdges(path))

----------------------------------------------------------------------------
(* nx.edge_disjoint_paths(self.G, 1, 8) *)

\* two paths that have no edge in common, whichever way it is walked
EdgeDisjoint(p, q) ==
    \A e \in PathEdges(p) : e \notin PathEdges(q) /\ <<e[2], e[1]>> \notin PathEdges(q)

\* the sets of paths from s to t of which no two share an edge
DisjointSets(g, s, t) ==
    {Q \in SUBSET SimplePaths(g, <<s>>, t) :
        \A p \in Q : \A q \in Q \ {p} : EdgeDisjoint(p, q)}

\* the results list(nx.edge_disjoint_paths(g, s, t)) can have, for s in the
\* graph and t reached from s: as many paths as the unit-capacity flow from s
\* to t carries, no two with a common edge.  Which of several such sets the
\* flow decomposes into depends on the search order inside the library: each
\* of them is a possible result.
edge_disjoint_paths(g, s, t) ==
    {Q \in DisjointSets(g, s, t) :
        \A R \in DisjointSets(g, s, t) : Cardinality(R) <= Cardinality(Q)}

----------------------------------------------------------------------------
(* _calculate_metrics.  A float is kept exact, as the fraction num/den; *)
(* float('inf') is 1/0.                                                  *)

Rat(n, d) == [num |-> n, den |-> d]
Inf == Rat(1, 0)
None == [none |-> TRUE]

\* nx.density(G): 0 without edges or with at most one node, else 2m / (n(n-1))
density(g) ==
    LET n == Cardinality(Nodes(g))
        m == number_of_edges(g)
    IN  IF m = 0 \/ n <= 1 THEN Rat(0, 1) ELSE Rat(2 * m, n * (n - 1))

\* a common multiple of d(d-1) for every degree d a node of this graph can have
ClusteringScale == 4 * 3 * 5 * 7

\* nx.average_clustering(G): the mean over the nodes of 2 T(v) / (d(v)(d(v)-1)),
\* T(v) the number of edges among v's neighbours, 0 when d(v) < 2
average_clustering(g) ==
    LET nb(v)  == DOMAIN g.adj[v] \ {v}
        T(v)   == Cardinality({p \in SUBSET nb(v) :
                      /\ Cardinality(p) = 2
                      /\ \E a \in p : \E b \in p :
                             a # b /\ b \in Neighbors(g, a)})
        d(v)   == Cardinality(nb(v))
        c      == [v \in Nodes(g) |->
                      IF d(v) < 2 THEN 0
                      ELSE (2 * T(v) * ClusteringScale) \div (d(v) * (d(v) - 1))]
    IN  Rat(SumOver(c, Nodes(g)), ClusteringScale * Cardinality(Nodes(g)))

\* nx.average_shortest_path_length(G) of a connected graph: 0 for one node,
\* else the sum of d(u, v) over ordered pairs / (n(n-1))
average_shortest_path_length(g, dist) ==
    LET n == Cardinality(Nodes(g))
        row == [u \in Nodes(g) |-> SumOver(dist[u], Nodes(g))]
    IN  IF n = 1 THEN Rat(0, 1) ELSE Rat(SumOver(row, Nodes(g)), n * (n - 1))

\* nx.diameter(G) of a connected graph: the largest eccentricity
diameter(g, dist) ==
    Rat(Max({Max({dist[u][v] : v \in Nodes(g)}) : u \in Nodes(g)}), 1)

\* the NetworkMetrics the handler stores; `old` is self.metrics before the call.
\* if not self.G.nodes(): return   -- the empty graph leaves self.metrics as is
calculate_metrics(g, old) ==
    IF Nodes(g) = {} THEN old
    ELSE LET dist == AllHopDistances(g, Nodes(g))
             connected == is_connected(g, dist)
         IN [density              |-> density(g),
             avg_clustering       |-> IF Cardinality(Nodes(g)) > 2
                                      THEN average_clustering(g) ELSE Rat(0, 1),
             avg_path_length      |-> IF connected
                                      THEN average_shortest_path_length(g, dist)
                                      ELSE Inf,
             diameter             |-> IF connected THEN diameter(g, dist) ELSE Inf,
             connected_components |-> number_connected_components(g, dist),
             avg_degree           |-> Rat(SumOver([n \in Nodes(g) |-> Degree(g, n)],
                                                  Nodes(g)),
                                          Cardinality(Nodes(g)))]

\* the graphs that node failures can make of the initial topology
FailedGraphs ==
    {[node |-> [n \in S |-> InitialGraph.node[n]],
      adj  |-> [u \in S |-> [v \in DOMAIN InitialGraph.adj[u] \cap S |->
                                InitialGraph.adj[u][v]]]] :
        S \in SUBSET Nodes(InitialGraph) \ {{}}}

\* calculate_metrics of each of these graphs, computed once
MetricsOfFailedGraphs ==
    [g \in FailedGraphs |-> calculate_metrics(g, None)] @@ NoAttrs

\* self._calculate_metrics(): the value of calculate_metrics(g, old)
_calculate_metrics(g, old) ==
    IF g \in FailedGraphs THEN MetricsOfFailedGraphs[g]
    ELSE calculate_metrics(g, old)

----------------------------------------------------------------------------
(* state after __init__ *)

Objects == {"G", "G_copy"}
TaskIds == 1..MaxTasks

\* a worker thread's record: which task function it runs, the next thing it
\* does, what it has seen of the graph, and the local variable of the task
\* function that a later step uses (mst edges, paths, path, colors_map)
IdleTask ==
    [kind |-> "none", pc |-> "idle", reads |-> "none", local |-> {},
     outcome |-> "none"]

\* the positions at which a task's next step is a networkx call on self.G
ReadPcs == {"r1", "r2", "r3"}

WorkingGraph == heap[G]

Init ==
    /\ G = "G"
    /\ G_original = "G_copy"
    /\ heap = [o \in Objects |->
                  IF o = "G" THEN InitialGraph ELSE copy(InitialGraph)]
    /\ metrics = _calculate_metrics(InitialGraph, None)
    /\ restored = FALSE
    /\ simulated = "none"
    /\ tasks = [t \in TaskIds |-> IdleTask]
    /\ result_queue = <<>>
    /\ enqueued = <<>>
    /\ delivered = <<>>
    /\ armed = TRUE

----------------------------------------------------------------------------
(* the handlers that change the graph; they run on the controlling thread *)

\* the workers whose networkx call is under way when remove_node runs: the
\* call iterates dicts that remove_node changes, and `hit` are the workers
\* whose call fails on it (RuntimeError, KeyError); the others see the graph
\* before or after the removal.  A worker that has made a call on the graph
\* as it was and has another to make is marked: its next call sees a graph
\* that has changed in between.
Torn(hit) ==
    [t \in TaskIds |->
        IF t \in hit
        THEN [tasks[t] EXCEPT !.pc = "raise", !.reads = "none", !.local = {}]
        ELSE IF tasks[t].pc \in ReadPcs /\ tasks[t].reads = "one"
        THEN [tasks[t] EXCEPT !.reads = "mutated"]
        ELSE tasks[t]]

\* A reset that binds self.G to the backup itself instead of a copy of it.
reset_without_copy ==
    /\ G' = G_original
    /\ heap' = heap
    /\ metrics' = _calculate_metrics(heap[G_original], metrics)
    /\ restored' = (Nodes(WorkingGraph) # Nodes(heap[G_original]))
    /\ UNCHANGED <<G_original, simulated, tasks, queueVars>>

\* _on_reset_network: self.G = self.G_original.copy(), then the metrics are
\* recomputed.  The copy is a new object; the object self.G was bound to is
\* referenced by nothing afterwards, and the new one takes its name.  No
\* object is changed in place, so no call under way fails on it.
_on_reset_network ==
    /\ heap' = [heap EXCEPT ![G] = copy(heap[G_original])]
    /\ metrics' = _calculate_metrics(heap'[G], metrics)
    /\ restored' = (Nodes(WorkingGraph) # Nodes(heap'[G]))
    /\ tasks' = IF heap'[G] # heap[G] THEN Torn({}) ELSE tasks
    /\ UNCHANGED <<G, G_original, simulated, queueVars>>

\* A handler without the test for an empty graph: random.choice of an empty
\* list raises IndexError.
simulate_failure_unguarded ==
    /\ IF Nodes(WorkingGraph) = {}
       THEN /\ simulated' = "IndexError"
            /\ UNCHANGED <<heap, metrics, restored, tasks>>
       ELSE /\ \E node \in Nodes(WorkingGraph) :
                 /\ heap' = [heap EXCEPT ![G] = remove_node(@, node)]
                 /\ metrics' = _calculate_metrics(heap'[G], metrics)
            /\ restored' = FALSE
            /\ simulated' = "removed"
            /\ \E hit \in SUBSET {t \in TaskIds : tasks[t].pc \in ReadPcs} :
                 tasks' = Torn(hit)
    /\ UNCHANGED <<G, G_original, queueVars>>

\* _on_simulate_failure: if not self.G.nodes(): return  -- on an empty graph
\* the handler returns at once, nothing removed and nothing raised; else a
\* random node of the graph is removed and the metrics are refreshed
_on_simulate_failure ==
    /\ IF Nodes(WorkingGraph) = {}
       THEN /\ simulated' = "returned"
            /\ UNCHANGED <<heap, metrics, restored, tasks>>
       ELSE /\ \E node \in Nodes(WorkingGraph) :
                 /\ heap' = [heap EXCEPT ![G] = remove_node(@, node)]
                 /\ metrics' = _calculate_metrics(heap'[G], metrics)
            /\ restored' = FALSE
            /\ simulated' = "removed"
            /\ \E hit \in SUBSET {t \in TaskIds : tasks[t].pc \in ReadPcs} :
                 tasks' = Torn(hit)
    /\ UNCHANGED <<G, G_original, queueVars>>

NextGraph == _on_simulate_failure \/ _on_reset_network

\* the graph handlers alone, called in any order
SpecGraph == Init /\ [][NextGraph]_vars

----------------------------------------------------------------------------
(* _run_task: one worker thread per task *)

Kinds ==
    {"mst", "paths", "coloring", "centrality", "dijkstra", "floyd", "flow",
     "clustering"}

\* the title each handler passes to _run_task
Title(kind) ==
    CASE kind = "mst"        -> "Calculating MST"
      [] kind = "paths"      -> "Finding Disjoint Paths"
      [] kind = "coloring"   -> "Graph Coloring"
      [] kind = "centrality" -> "Centrality Analysis"
      [] kind = "dijkstra"   -> "Dijkstra Algorithm"
      [] kind = "floyd"      -> "Floyd-Warshall"
      [] kind = "flow"       -> "Max Flow Analysis"
      [] kind = "clustering" -> "Clustering Analysis"

\* _run_task(func, title): thread = threading.Thread(target=worker); thread.start()
\* The threads are numbered in the order they are started.
_run_task(kind) ==
    /\ \E t \in TaskIds :
         /\ tasks[t].pc = "idle"
         /\ \A u \in TaskIds : u < t => tasks[u].pc # "idle"
         /\ tasks' = [tasks EXCEPT ![t] = [IdleTask EXCEPT !.kind = kind, !.pc = "r1"]]
    /\ UNCHANGED <<graphVars, queueVars>>

_on_generate_mst == _run_task("mst")
_on_show_paths == _run_task("paths")
_on_graph_coloring == _run_task("coloring")
_on_centrality_analysis == _run_task("centrality")
_on_dijkstra == _run_task("dijkstra")
_on_floyd == _run_task("floyd")
_on_flow == _run_task("flow")
_on_clustering == _run_task("clustering")

\* _on_execute_algorithm: dispatch on the selected radio button
_on_execute_algorithm ==
    \E algo \in {"mst", "dijkstra", "floyd", "flow", "clustering"} :
        CASE algo = "mst"        -> _on_generate_mst
          [] algo = "dijkstra"   -> _on_dijkstra
          [] algo = "floyd"      -> _on_floyd
          [] algo = "flow"       -> _on_flow
          [] algo = "clustering" -> _on_clustering

\* Where a task function goes after the networkx call it makes at `pc` on the
\* graph g that self.G is bound to at that moment: its next call ("r2", "r3"),
\* its put of a graph_update ("upd"), its return ("ret") or an exception
\* ("raise").  `local` is the task function's local variable (see LocalAfter).
AfterRead(kind, pc, g, local) ==
    CASE kind = "mst" -> "upd"
           \* nx.minimum_spanning_tree(self.G, algorithm="prim")
      [] kind = "paths" /\ pc = "r1" ->
           \* if not nx.has_path(self.G, 1, 8): return "No path ..."
           IF NodeNotFound(g, 1, 8) THEN "raise"
           ELSE IF has_path(g, 1, 8) THEN "r2" ELSE "ret"
      [] kind = "paths" /\ pc = "r2" ->
           \* list(nx.edge_disjoint_paths(self.G, 1, 8)): NetworkXError for a
           \* missing endpoint, NetworkXNoPath when there is no path
           IF NodeNotFound(g, 1, 8) THEN "raise"
           ELSE IF has_path(g, 1, 8) THEN "upd" ELSE "raise"
      [] kind = "coloring" /\ pc = "r1" -> "r2"
           \* colors_map = nx.coloring.greedy_color(self.G, ...)
      [] kind = "coloring" /\ pc = "r2" ->
           \* [... colors_map[n] ... for n in self.G.nodes()]: KeyError for a
           \* node that colors_map does not have
           IF Nodes(g) \subseteq DOMAIN local THEN "upd" ELSE "raise"
      [] kind = "centrality" -> "ret"
      [] kind = "dijkstra" /\ pc = "r1" ->
           \* if not nx.has_path(self.G, 1, 8): return "No path."
           IF NodeNotFound(g, 1, 8) THEN "raise"
           ELSE IF has_path(g, 1, 8) THEN "r2" ELSE "ret"
      [] kind = "dijkstra" /\ pc \in {"r2", "r3"} ->
           \* nx.dijkstra_path / nx.dijkstra_path_length(self.G, 1, 8):
           \* NodeNotFound without the source, NetworkXNoPath without a path
           IF NodeNotFound(g, 1, 8) \/ ~has_path(g, 1, 8) THEN "raise"
           ELSE IF pc = "r2" THEN "r3" ELSE "upd"
      [] kind = "floyd" -> "ret"
      [] kind = "flow" ->
           \* nx.maximum_flow(self.G, 1, 8): NetworkXError for a missing endpoint
           IF NodeNotFound(g, 1, 8) THEN "raise" ELSE "ret"
      [] kind = "clustering" ->
           \* nx.average_clustering(self.G): sum(c) / len(c), ZeroDivisionError
           \* on the empty graph
           IF Nodes(g) = {} THEN "raise" ELSE "ret"

\* ApplicationConfig.COLOR_MAP
COLOR_MAP ==
    (0 :> "red") @@ (1 :> "blue") @@ (2 :> "green") @@ (3 :> "yellow") @@
    (4 :> "orange") @@ (5 :> "purple") @@ (6 :> "pink") @@ (7 :> "brown")

\* list(G.nodes()): the nodes in the order the graph iterates them (see Edges)
NodeList(g) ==
    [i \in 1..Cardinality(Nodes(g)) |->
        CHOOSE n \in Nodes(g) : Cardinality({m \in Nodes(g) : m < n}) = i - 1]

\* [COLOR_MAP.get(colors_map[n], "gray") for n in self.G.nodes()], for a
\* colors_map that has every node of g
node_colors(g, colors_map) ==
    [i \in 1..Cardinality(Nodes(g)) |->
        IF colors_map[NodeList(g)[i]] \in DOMAIN COLOR_MAP
        THEN COLOR_MAP[colors_map[NodeList(g)[i]]] ELSE "gray"]

\* what the calls of the task functions that keep their result yield on the
\* graph g: the edge sets of mst, the edge sets of the disjoint paths, the
\* colors_map, the paths of dijkstra_path (the last three where the call
\* does not raise)
Results(g) ==
    LET joined == ~NodeNotFound(g, 1, 8) /\ has_path(g, 1, 8)
    IN  [mst      |-> minimum_spanning_tree(g),
         paths    |-> IF joined
                      THEN {UNION {PathEdges(path) : path \in paths} :
                               paths \in edge_disjoint_paths(g, 1, 8)}
                      ELSE {},
         coloring |-> greedy_color(g),
         dijkstra |-> IF joined THEN dijkstra_path(g, 1, 8) ELSE {}]

\* Results of the graphs that node failures can make of the initial topology,
\* computed once
ResultsOfFailedGraphs ==
    [g \in FailedGraphs \cup {EmptyGraph} |-> Results(g)] @@ NoAttrs

\* the value of Results(g)
ResultsOn(g) ==
    IF g \in DOMAIN ResultsOfFailedGraphs THEN ResultsOfFailedGraphs[g]
    ELSE Results(g)

\* The values the task function's local variable can have after the call it
\* makes at `pc` on the graph g, when the function goes on to another call or
\* to its put (AfterRead): the edges of mst, the edges of the paths, the
\* colors_map and then the color list made from it, the path.
LocalAfter(kind, pc, g, local) ==
    CASE kind = "mst" -> ResultsOn(g).mst
           \* highlight = list(mst.edges())
      [] kind = "paths" /\ pc = "r2" -> ResultsOn(g).paths
           \* for path in paths: highlight.extend(zip(path, path[1:]))
      [] kind = "coloring" /\ pc = "r1" -> {ResultsOn(g).coloring}
      [] kind = "coloring" /\ pc = "r2" ->
           {[colors_map |-> local, node_colors |-> node_colors(g, local)]}
      [] kind = "dijkstra" /\ pc = "r2" -> ResultsOn(g).dijkstra
      [] kind = "dijkstra" /\ pc = "r3" -> {local}
      [] OTHER -> {{}}

\* a task function's next networkx call on self.G.  reads: "one" once the task
\* has made a call and has another to make, "mutated" when the graph has been
\* changed since (see Torn).
task_read(t) ==
    LET tk == tasks[t]
        pc == AfterRead(tk.kind, tk.pc, WorkingGraph, tk.local)
    IN  /\ tk.pc \in ReadPcs
        /\ \E local \in (IF pc \in {"ret", "raise"} THEN {{}}
                         ELSE LocalAfter(tk.kind, tk.pc, WorkingGraph, tk.local)) :
              tasks' = [tasks EXCEPT ![t] =
                 [tk EXCEPT
                    !.pc    = pc,
                    !.reads = IF pc \notin ReadPcs THEN "none"
                              ELSE IF tk.reads = "none" THEN "one" ELSE tk.reads,
                    !.local = local]]
        /\ UNCHANGED <<graphVars, queueVars>>

Message(type, t, title) == [type |-> type, task |-> t, title |-> title]

\* what the histories keep of a message: whose it is and of which type, not
\* the edges or colors a graph_update carries
Header(msg) == Message(msg.type, msg.task, msg.title)

\* the headers of the messages of a queue, in order
Headers(q) == [i \in DOMAIN q |-> Header(q[i])]

\* A put that adds the message at the head of the queue.
put_first(q, msg) == <<msg>> \o q

\* queue.Queue.put: first in, first out
put(q, msg) == Append(q, msg)

Enqueue(msg) ==
    /\ result_queue' = put(result_queue, msg)
    /\ enqueued' = Append(enqueued, Header(msg))
    /\ UNCHANGED <<delivered, armed>>

\* {'type': 'graph_update', 'highlight': ...} or {..., 'colors': ...}.  The
\* key that a message does not have is kept as the empty list here:
\* _draw_graph treats a missing and an empty value alike.
GraphUpdate(t, highlight, colors) ==
    [type |-> "graph_update", task |-> t, title |-> "",
     highlight |-> highlight, colors |-> colors]

\* self.result_queue.put({'type': 'graph_update', ...}) inside a task function.
\* The coloring task goes on to max(colors_map.values()), a ValueError when
\* colors_map is empty; the others go on to return their report.
task_put_update(t) ==
    LET tk == tasks[t]
    IN  /\ tk.pc = "upd"
        /\ Enqueue(CASE tk.kind = "coloring" ->
                          GraphUpdate(t, {}, tk.local.node_colors)
                     [] tk.kind = "dijkstra" ->
                          \* highlight = list(zip(path, path[1:]))
                          GraphUpdate(t, PathEdges(tk.local), <<>>)
                     [] OTHER -> GraphUpdate(t, tk.local, <<>>))
        /\ tasks' = [tasks EXCEPT ![t] =
              [tk EXCEPT !.pc = IF tk.kind = "coloring"
                                   /\ DOMAIN tk.local.colors_map = {}
                                THEN "raise" ELSE "ret",
                         !.local = {}]]
        /\ UNCHANGED graphVars

\* the thread has ended: only its outcome is left
Ended(tk, outcome) == [IdleTask EXCEPT !.pc = "done", !.outcome = outcome]

\* A worker that lets the exception end the thread.
worker_drop_error(t) ==
    /\ tasks[t].pc = "raise"
    /\ tasks' = [tasks EXCEPT ![t] = Ended(tasks[t], "raised")]
    /\ UNCHANGED <<graphVars, queueVars>>

\* A worker that takes the report for empty and puts nothing.
worker_skip_result(t) ==
    /\ tasks[t].pc = "ret"
    /\ tasks' = [tasks EXCEPT ![t] = Ended(tasks[t], "returned")]
    /\ UNCHANGED <<graphVars, queueVars>>

\* worker(): result = func(); if result: put({'type': 'result_page', ...}).
\* Every task function returns a non-empty string.
worker_put_result(t) ==
    /\ tasks[t].pc = "ret"
    /\ Enqueue(Message("result_page", t, Title(tasks[t].kind)))
    /\ tasks' = [tasks EXCEPT ![t] = Ended(tasks[t], "returned")]
    /\ UNCHANGED graphVars

\* worker(): except Exception as e: put({'type': 'error', 'data': str(e)})
worker_put_error(t) ==
    /\ tasks[t].pc = "raise"
    /\ Enqueue(Message("error", t, ""))
    /\ tasks' = [tasks EXCEPT ![t] = Ended(tasks[t], "raised")]
    /\ UNCHANGED graphVars

\* one step of worker thread t
worker(t) ==
    \/ task_read(t)
    \/ task_put_update(t)
    \/ worker_put_result(t)
    \/ worker_put_error(t)

----------------------------------------------------------------------------
(* _check_queue: the poll of the result queue on the controlling thread *)

RECURSIVE Drain(_, _)
\* while True: msg = self.result_queue.get_nowait(); <handle msg>
\* until queue.Empty: the messages handled, in the order taken
Drain(q, handled) ==
    IF q = <<>> THEN handled
    ELSE Drain(Tail(q), Append(handled, Head(q)))

\* A drain that stops after the first message.
drain_one(q) == IF q = <<>> THEN <<>> ELSE <<Head(q)>>

\* everything one _check_queue run handles
drain(q) == Drain(q, <<>>)

\* _check_queue: runs when its timer fires, handles what is queued, and
\* finally: self.after(100, self._check_queue)
_check_queue ==
    /\ armed
    /\ delivered' = delivered \o Headers(drain(result_queue))
    /\ result_queue' = SubSeq(result_queue, Len(drain(result_queue)) + 1,
                              Len(result_queue))
    /\ armed' = TRUE
    /\ UNCHANGED <<graphVars, tasks, enqueued>>

----------------------------------------------------------------------------
(* the program *)

\* _on_simulate_failure while at most MaxFailed nodes are missing, with
\* random.choice taking one of the nodes 1..MaxFailNode
simulate_failure_bounded ==
    /\ Cardinality(Nodes(WorkingGraph)) > NODE_COUNT - MaxFailed
    /\ _on_simulate_failure
    /\ Nodes(WorkingGraph) \ Nodes(heap'[G']) \subseteq 1..MaxFailNode

Next ==
    \/ _on_generate_mst
    \/ _on_show_paths
    \/ _on_graph_coloring
    \/ _on_centrality_analysis
    \/ _on_execute_algorithm
    \/ simulate_failure_bounded
    \/ _on_reset_network
    \/ _check_queue
    \/ \E t \in TaskIds : worker(t)

Spec == Init /\ [][Next]_vars

\* Every started thread is scheduled again and again, and the Tk timer that
\* _check_queue sets fires.
Fairness ==
    /\ \A t \in TaskIds : WF_vars(worker(t))
    /\ WF_vars(_check_queue)

FairSpec == Spec /\ Fairness

\* no worker thread has been started
NoTask == \A t \in TaskIds : tasks[t].pc = "idle"

\* The program used the way its window allows: the graph handlers are called
\* in any order, then one task is started (the LoadingDialog of _run_task
\* holds the grab while the task runs) and the queue is polled.
NextOneTask ==
    \/ NoTask /\ _on_simulate_failure
    \/ NoTask /\ _on_reset_network
    \/ NoTask /\ _on_generate_mst
    \/ NoTask /\ _on_show_paths
    \/ NoTask /\ _on_graph_coloring
    \/ NoTask /\ _on_centrality_analysis
    \/ NoTask /\ _on_execute_algorithm
    \/ _check_queue
    \/ \E t \in TaskIds : worker(t)

SpecOneTask == Init /\ [][NextOneTask]_vars

----------------------------------------------------------------------------
(* the baseline topology, as the specification lists it *)

BaselineNodes == 1..NODE_COUNT

\* (node, node, weight, capacity)
BaselineEdges ==
    { <<1, 2, 4, 100>>, <<1, 3, 3, 100>>, <<2, 4, 5, 80>>, <<3, 4, 6, 60>>,
      <<3, 5, 2, 120>>, <<5, 6, 4, 90>>, <<6, 7, 3, 110>>, <<7, 8, 2, 100>>,
      <<4, 8, 7, 50>> }

\* the edges of g as (smaller node, larger node, weight, capacity)
WeightedEdges(g) ==
    {<<IF e[1] < e[2] THEN e[1] ELSE e[2], IF e[1] < e[2] THEN e[2] ELSE e[1],
       e[3].weight, e[3].capacity>> : e \in EdgeData(g)}

\* every adjacency entry joins two nodes of the graph and is held in both
\* directions with the same attributes
WellFormed(g) ==
    /\ DOMAIN g.adj = Nodes(g)
    /\ \A u \in DOMAIN g.adj : \A v \in DOMAIN g.adj[u] :
          /\ v \in Nodes(g)
          /\ v \in DOMAIN g.adj
          /\ u \in DOMAIN g.adj[v]
          /\ g.adj[v][u] = g.adj[u][v]

IsBaseline(g) ==
    /\ Nodes(g) = BaselineNodes
    /\ WellFormed(g)
    /\ Cardinality(EdgeData(g)) = Cardinality(BaselineEdges)
    /\ WeightedEdges(g) = BaselineEdges

\* a task in the middle of its graph reads: it has made a networkx call on
\* self.G and has another one to make
Running(t) == tasks[t].pc \in {"r2", "r3"}

----------------------------------------------------------------------------
(* the claims *)

\* C1: all graph reads of one task execution observe one and the same graph
\* version: no task makes a networkx call on self.G after the graph has been
\* changed since an earlier call of the same execution.
C1_OneGraphVersionPerTask ==
    [][\A t \in TaskIds : task_read(t) => tasks[t].reads # "mutated"]_vars

\* C2: a graph mutation (remove_node, reset) never happens while a task is
\* Running, between two of its reads of the graph.
C2_NoMutationWhileRunning ==
    [][(heap'[G'] # heap[G]) => \A t \in TaskIds : ~Running(t)]_vars

\* C3: immediately after a reset the working graph is exactly the baseline
\* (nodes 1..8, the nine edges with their weights and capacities), whatever
\* failures and resets came before, and the backup is the baseline in every
\* state.
C3_ResetRestoresBaseline ==
    /\ [][_on_reset_network => IsBaseline(heap'[G'])]_vars
    /\ [](IsBaseline(heap[G_original]))

\* a reset has just brought removed nodes back
C3_Witness ==
    /\ restored
    /\ IsBaseline(WorkingGraph)
    /\ WorkingGraph = heap[G_original]

\* C8: in every state every edge of the working graph joins two nodes of the
\* graph and no pair of nodes has two edges; a failure of a graph that has
\* nodes removes exactly one node and its incident edges and leaves the other
\* nodes and edges as they were.
C8_GraphWellFormed ==
    /\ [](/\ WellFormed(WorkingGraph)
          /\ \A e \in EdgeData(WorkingGraph) : \A f \in EdgeData(WorkingGraph) :
                {e[1], e[2]} = {f[1], f[2]} => e = f)
    /\ [][(_on_simulate_failure /\ Nodes(WorkingGraph) # {}) =>
            \E n \in Nodes(WorkingGraph) :
               /\ Nodes(heap'[G']) = Nodes(WorkingGraph) \ {n}
               /\ \A m \in Nodes(heap'[G']) : heap'[G'].node[m] = WorkingGraph.node[m]
               /\ EdgeData(heap'[G']) =
                    {e \in EdgeData(WorkingGraph) : e[1] # n /\ e[2] # n}]_vars

\* three nodes have failed and edges are left
C8_Witness ==
    /\ Cardinality(Nodes(WorkingGraph)) = NODE_COUNT - 3
    /\ Edges(WorkingGraph) # {}
    /\ Cardinality(Edges(WorkingGraph)) < Cardinality(BaselineEdges) - 3

\* the baseline without node 4
WithoutNode4(g) == Nodes(g) = BaselineNodes \ {4}

\* C9 as claimed: after removing node 4 from the baseline, has_path(2, 8) is
\* false.
C9_NoPathAfterRemoving4 ==
    WithoutNode4(WorkingGraph) => ~has_path(WorkingGraph, 2, 8)

\* C9 as amended: after removing node 4 from the baseline the edges (2,4),
\* (3,4), (4,8) are gone and node 2's only neighbour is node 1, but
\* has_path(2, 8) is still true, along 2-1-3-5-6-7-8.
C9_PathSurvivesRemoving4 ==
    WithoutNode4(WorkingGraph) =>
        /\ WeightedEdges(WorkingGraph) =
              BaselineEdges \ {<<2, 4, 5, 80>>, <<3, 4, 6, 60>>, <<4, 8, 7, 50>>}
        /\ Neighbors(WorkingGraph, 2) = {1}
        /\ has_path(WorkingGraph, 2, 8)
        /\ is_connected(WorkingGraph,
                        AllHopDistances(WorkingGraph, Nodes(WorkingGraph)))

C9_Witness == WithoutNode4(WorkingGraph) /\ ~restored

\* C10 as claimed: a node that is not in the working graph is not in it in
\* the next state either, whatever the step.
C10_RemovedNeverReadded ==
    [][\A n \in BaselineNodes :
          n \notin Nodes(WorkingGraph) => n \notin Nodes(heap'[G'])]_vars

\* C10 as amended: a removed node stays absent until the next reset: every
\* step that adds a node to the working graph is a reset, and a reset that
\* adds a node brings every node back.
C10_ReaddedOnlyByReset ==
    [][\/ Nodes(heap'[G']) \subseteq Nodes(WorkingGraph)
       \/ _on_reset_network /\ Nodes(heap'[G']) = BaselineNodes]_vars

\* a reset has brought a failed node back while tasks were around
C10_Witness ==
    /\ restored
    /\ Nodes(WorkingGraph) = BaselineNodes
    /\ \E t \in TaskIds : tasks[t].pc # "idle"

\* the places in the message sequence q of task t's terminal messages
Terminal(q, t) ==
    {i \in DOMAIN q : q[i].task = t /\ q[i].type \in {"result_page", "error"}}

\* the places in q of task t's graph_update messages
Annotations(q, t) ==
    {i \in DOMAIN q : q[i].task = t /\ q[i].type = "graph_update"}

\* C4: the step that handles a task's exception puts that task's error
\* message and changes nothing else: the graph objects, self.G, the backup,
\* the metrics, the poll timer and every other task's thread are as before;
\* and every thread that has ended has put its one terminal message.
C4_FailureIsolation ==
    /\ [][\A t \in TaskIds :
            (tasks[t].pc = "raise" /\ tasks'[t].pc # "raise") =>
               /\ result_queue' = Append(result_queue, Message("error", t, ""))
               /\ tasks'[t].pc = "done" /\ tasks'[t].outcome = "raised"
               /\ \A u \in TaskIds \ {t} : tasks'[u] = tasks[u]
               /\ UNCHANGED <<graphVars, delivered, armed>>]_vars
    /\ [](\A t \in TaskIds :
            tasks[t].pc = "done" => Cardinality(Terminal(enqueued, t)) = 1)

\* a task has failed and, after its error message, another task has put
\* its report
C4_Witness ==
    \E t \in TaskIds : \E u \in TaskIds \ {t} :
        /\ tasks[t].outcome = "raised"
        /\ tasks[u].outcome = "returned"
        /\ \E i \in Terminal(enqueued, t) : \E j \in Terminal(enqueued, u) : i < j

\* C5: a task has no terminal message before its thread ends and exactly one
\* afterwards, a result_page if its function returned and an error if it
\* raised; and every started thread reaches that point: again and again
\* no thread is between its start and its end.
C5_OneTerminalMessage ==
    /\ [](\A t \in TaskIds :
            /\ tasks[t].pc # "done" => Terminal(enqueued, t) = {}
            /\ tasks[t].pc = "done" =>
                 /\ Cardinality(Terminal(enqueued, t)) = 1
                 /\ \A i \in Terminal(enqueued, t) :
                       enqueued[i].type =
                          (IF tasks[t].outcome = "returned"
                           THEN "result_page" ELSE "error"))
    /\ []<>(\A t \in TaskIds : tasks[t].pc \in {"idle", "done"})

\* every thread has ended, one with a report and one with an error, on a
\* graph that failures have changed
C5_Witness ==
    /\ \A t \in TaskIds : tasks[t].pc = "done"
    /\ \E t \in TaskIds : tasks[t].outcome = "returned"
    /\ \E t \in TaskIds : tasks[t].outcome = "raised"
    /\ Nodes(WorkingGraph) # BaselineNodes

\* C6: a task's graph_update is put before its terminal message, and where
\* the terminal message of a task that put a graph_update has been handled
\* by _check_queue, the graph_update was handled before it.
C6_AnnotationBeforeReport ==
    \A t \in TaskIds :
       /\ \A i \in Annotations(enqueued, t) : \A j \in Terminal(enqueued, t) : i < j
       /\ \A j \in Terminal(delivered, t) :
             Annotations(enqueued, t) # {} =>
                \E i \in Annotations(delivered, t) : i < j

\* a task's graph_update and report have been handled with another task's
\* message between them
C6_Witness ==
    \E t \in TaskIds :
       \E i \in Annotations(delivered, t) : \E j \in Terminal(delivered, t) :
          \E k \in DOMAIN delivered :
             i < k /\ k < j /\ delivered[k].task # t

\* C7: what has been put is what has been handled followed by what is queued
\* (nothing lost, nothing twice, in put order); a poll handles everything that
\* is queued and leaves the queue empty, and is possible in every state, with
\* an empty queue too; the timer is pending again after every poll; and every
\* message put is handled in the end: again and again all of them have been.
C7_PollDrains ==
    /\ [](enqueued = delivered \o Headers(result_queue))
    /\ [](armed /\ ENABLED _check_queue)
    /\ [][_check_queue =>
            /\ delivered' = delivered \o Headers(result_queue)
            /\ result_queue' = <<>>]_vars
    /\ []<>(delivered = enqueued)

\* three messages have been handled and nothing is queued
C7_Witness ==
    /\ Len(delivered) >= 3
    /\ result_queue = <<>>
    /\ \E t \in TaskIds : tasks[t].pc # "done"

CutEdges(g, S) ==
    {e \in EdgeData(g) : (e[1] \in S) # (e[2] \in S)}

\* the total capacity of the edges that leave S
CutCapacity(g, S) ==
    SumOver([e \in CutEdges(g, S) |-> e[3].capacity], CutEdges(g, S))

\* the side of the source of every cut that separates s from t
Cuts(g, s, t) == {S \cup {s} : S \in SUBSET (Nodes(g) \ {s, t})}

\* C12: in the baseline and in every graph that failures leave with nodes 1
\* and 8, the max-flow value from 1 to 8 is the least capacity of a cut that
\* separates 1 from 8; on the baseline it is 140, the capacity of the cut
\* {(5,6), (4,8)}.
C12_MaxFlowMinCut ==
    /\ ({1, 8} \subseteq Nodes(WorkingGraph)) =>
          /\ \A S \in Cuts(WorkingGraph, 1, 8) :
                maximum_flow(WorkingGraph, 1, 8) <= CutCapacity(WorkingGraph, S)
          /\ \E S \in Cuts(WorkingGraph, 1, 8) :
                maximum_flow(WorkingGraph, 1, 8) = CutCapacity(WorkingGraph, S)
    /\ IsBaseline(WorkingGraph) =>
          /\ maximum_flow(WorkingGraph, 1, 8) = 140
          /\ \E S \in Cuts(WorkingGraph, 1, 8) :
                /\ {<<e[1], e[2]>> : e \in CutEdges(WorkingGraph, S)} =
                      {<<5, 6>>, <<4, 8>>}
                /\ CutCapacity(WorkingGraph, S) = 140

\* node 4 has failed, and the flow from 1 to 8 is what edge (5,6) carries
C12_Witness ==
    /\ Nodes(WorkingGraph) = BaselineNodes \ {4}
    /\ simulated = "removed"
    /\ maximum_flow(WorkingGraph, 1, 8) = 90

\* C13: on the baseline and on every graph with nodes that failures leave,
\* the greedy largest-first coloring colors every node, gives the two ends of
\* every edge different colors, and the chromatic number reported is one more
\* than the highest color used, every color below it being used; on the
\* baseline it is 2, with 1:1, 2:0, 3:0, 4:1, 5:1, 6:0, 7:1, 8:0.
C13_ColoringValid ==
    LET colors_map == greedy_color(WorkingGraph)
        used       == {colors_map[n] : n \in DOMAIN colors_map}
    IN  /\ Nodes(WorkingGraph) # {} =>
              /\ DOMAIN colors_map = Nodes(WorkingGraph)
              /\ \A e \in Edges(WorkingGraph) : colors_map[e[1]] # colors_map[e[2]]
              /\ used = 0..(chromatic_number(colors_map) - 1)
              /\ \A c \in used : c < chromatic_number(colors_map)
        /\ IsBaseline(WorkingGraph) =>
              /\ chromatic_number(colors_map) = 2
              /\ colors_map = (1 :> 1) @@ (2 :> 0) @@ (3 :> 0) @@ (4 :> 1) @@
                              (5 :> 1) @@ (6 :> 0) @@ (7 :> 1) @@ (8 :> 0)

\* failures have left a graph on which the coloring takes three colors
C13_Witness ==
    /\ simulated = "removed"
    /\ Edges(WorkingGraph) # {}
    /\ chromatic_number(greedy_color(WorkingGraph)) = 3

\* the edge sets that join all nodes of g without a cycle
SpanningTrees(g) ==
    {T \in SUBSET Edges(g) :
        /\ Cardinality(T) = Cardinality(Nodes(g)) - 1
        /\ LET joined == [node |-> g.node,
                          adj  |-> [u \in Nodes(g) |->
                                      [v \in {x \in Neighbors(g, u) :
                                                 <<u, x>> \in T \/ <<x, u>> \in T}
                                         |-> g.adj[u][v]]]]
           IN  Reachable(joined, Min(Nodes(g))) = Nodes(g)}

\* C14: on the baseline topology Prim's algorithm yields the edges (3,5),
\* (7,8), (1,3), (6,7), (1,2), (5,6), (2,4) and nothing else, of total
\* weight 23, and no spanning tree of the baseline weighs less.
C14_BaselineMST ==
    IsBaseline(WorkingGraph) =>
       /\ minimum_spanning_tree(WorkingGraph) =
             {{<<3, 5>>, <<7, 8>>, <<1, 3>>, <<6, 7>>, <<1, 2>>, <<5, 6>>, <<2, 4>>}}
       /\ \A mst \in minimum_spanning_tree(WorkingGraph) :
             /\ total_weight(WorkingGraph, mst) = 23
             /\ mst \in SpanningTrees(WorkingGraph)
       /\ \A T \in SpanningTrees(WorkingGraph) : total_weight(WorkingGraph, T) >= 23

\* the baseline is back after failures, with more than one spanning tree to
\* choose from
C14_Witness ==
    /\ restored
    /\ IsBaseline(WorkingGraph)
    /\ Cardinality(SpanningTrees(WorkingGraph)) > 1

\* C15: on the baseline topology the shortest path from 1 to 8 is
\* [1,3,5,6,7,8], of total weight 14; no path from 1 to 8 weighs less, and
\* [1,2,4,8] weighs 16.
C15_BaselineShortestPath ==
    IsBaseline(WorkingGraph) =>
       /\ dijkstra_path(WorkingGraph, 1, 8) = {<<1, 3, 5, 6, 7, 8>>}
       /\ dijkstra_path_length(WorkingGraph, 1, 8) = 14
       /\ \A p \in dijkstra_path(WorkingGraph, 1, 8) : PathWeight(WorkingGraph, p) = 14
       /\ \A p \in SimplePaths(WorkingGraph, <<1>>, 8) : PathWeight(WorkingGraph, p) >= 14
       /\ <<1, 2, 4, 8>> \in SimplePaths(WorkingGraph, <<1>>, 8)
       /\ PathWeight(WorkingGraph, <<1, 2, 4, 8>>) = 16

\* the baseline is back after failures, with its four paths from 1 to 8
C15_Witness ==
    /\ restored
    /\ simulated = "removed"
    /\ IsBaseline(WorkingGraph)
    /\ Cardinality(SimplePaths(WorkingGraph, <<1>>, 8)) = 4

\* C16 as stated: the all-pairs result has an entry for every ordered pair
\* of nodes of the working graph.
C16_EveryPairHasEntry ==
    LET path_lengths == all_pairs_dijkstra_path_length(WorkingGraph)
    IN  \A u \in Nodes(WorkingGraph) : \A v \in Nodes(WorkingGraph) :
           u \in DOMAIN path_lengths /\ v \in DOMAIN path_lengths[u]

\* C16 as amended: the all-pairs result has a row for every node of the
\* working graph; the row of u has an entry for exactly the nodes that a path
\* from u reaches, the least total weight of such a path, and a pair that no
\* path connects has no entry.
C16_ReachablePairsOnly ==
    LET path_lengths == all_pairs_dijkstra_path_length(WorkingGraph)
    IN  /\ DOMAIN path_lengths = Nodes(WorkingGraph)
        /\ \A u \in Nodes(WorkingGraph) :
              /\ DOMAIN path_lengths[u] = Reachable(WorkingGraph, u)
              /\ \A v \in Nodes(WorkingGraph) :
                    IF has_path(WorkingGraph, u, v)
                    THEN path_lengths[u][v] =
                            Min({PathWeight(WorkingGraph, p) :
                                    p \in SimplePaths(WorkingGraph, <<u>>, v)})
                    ELSE v \notin DOMAIN path_lengths[u]

\* failures have split the graph: two of its nodes have no path between them
C16_Witness ==
    /\ simulated = "removed"
    /\ \E u \in Nodes(WorkingGraph) : \E v \in Nodes(WorkingGraph) :
          /\ ~has_path(WorkingGraph, u, v)
          /\ v \notin DOMAIN all_pairs_dijkstra_path_length(WorkingGraph)[u]
    /\ \E u \in Nodes(WorkingGraph) : \E v \in Nodes(WorkingGraph) \ {u} :
          has_path(WorkingGraph, u, v)

\* C17 as stated: the MST task run on a graph without nodes ends in an
\* exception, which the worker puts as an error message, and not in a report.
C17_EmptyMSTFails ==
    [][\A t \in TaskIds :
          (tasks[t].kind = "mst" /\ Nodes(WorkingGraph) = {} /\ task_read(t)) =>
             tasks'[t].pc = "raise"]_vars

\* C17 as amended: the MST task run on a graph without nodes does not fail:
\* it finds a tree without edges, of total weight 0, puts a graph_update
\* that highlights nothing and returns its report, which the worker puts as a
\* result_page; no error message is put.
C17_EmptyMSTReports ==
    /\ [](\A t \in TaskIds :
            (tasks[t].kind = "mst" /\ Nodes(WorkingGraph) = {}) =>
               /\ tasks[t].pc \in {"r1", "upd", "ret"}
               /\ tasks[t].pc = "upd" =>
                     /\ tasks[t].local = {}
                     /\ total_weight(WorkingGraph, tasks[t].local) = 0
               /\ tasks[t].pc = "ret" =>
                     \E i \in DOMAIN result_queue \cup {0} :
                        \/ i = 0 /\ Annotations(delivered, t) # {}
                        \/ i # 0 /\ result_queue[i] = GraphUpdate(t, {}, <<>>))
    /\ [][\A t \in TaskIds :
            (/\ tasks[t].kind = "mst" /\ Nodes(WorkingGraph) = {}
             /\ tasks[t].pc = "ret" /\ tasks'[t].pc # "ret") =>
               /\ tasks'[t].outcome = "returned"
               /\ result_queue' =
                     Append(result_queue, Message("result_page", t, Title("mst")))]_vars

\* every node has failed, and the MST task run after that has put its
\* graph_update and its report
C17_Witness ==
    /\ Nodes(WorkingGraph) = {}
    /\ \E t \in TaskIds :
          /\ tasks[t].outcome = "returned"
          /\ Annotations(enqueued, t) # {}
          /\ \E i \in Terminal(enqueued, t) : enqueued[i].title = Title("mst")

\* a search from any node of g reaches every node
Connected(g) == \A n \in Nodes(g) : Reachable(g, n) = Nodes(g)

\* C18: recomputing the metrics never fails, and the metrics describe the
\* working graph: diameter and average path length are +infinity when it is
\* disconnected, the clustering is 0 when it has at most two nodes, and when
\* a failure empties the graph the metrics are computed anew (they are neither
\* None nor the metrics of the graph before the failure, which had a node and
\* a component).
C18_MetricsDescribeGraph ==
    /\ [](metrics # None)
    /\ [](Nodes(WorkingGraph) # {} =>
            /\ ~Connected(WorkingGraph) =>
                  metrics.diameter = Inf /\ metrics.avg_path_length = Inf
            /\ Connected(WorkingGraph) =>
                  metrics.diameter # Inf /\ metrics.avg_path_length # Inf
            /\ Cardinality(Nodes(WorkingGraph)) <= 2 =>
                  metrics.avg_clustering = Rat(0, 1))
    /\ [][(_on_simulate_failure /\ Nodes(WorkingGraph) # {}
                                /\ Nodes(heap'[G']) = {}) =>
             metrics' # None /\ metrics' # metrics]_vars

\* a graph_update that _draw_graph can draw on g: every edge it highlights
\* joins two neighbours of g, and its colour list, if it has one, has one
\* colour per node of g
FitsGraph(msg, g) ==
    /\ msg.highlight \subseteq AdjPairs(g)
    /\ msg.colors # <<>> => Len(msg.colors) = Cardinality(Nodes(g))

\* C19: every graph_update that _check_queue takes from the queue fits the
\* working graph it is drawn on, whatever failures and resets happened while
\* the task ran and while the message was queued.
C19_AnnotationsFitGraph ==
    [][_check_queue =>
          \A i \in DOMAIN drain(result_queue) :
             drain(result_queue)[i].type = "graph_update" =>
                FitsGraph(drain(result_queue)[i], WorkingGraph)]_vars

\* C20: a task whose terminal message is an error message has put no
\* graph_update, whatever graph it ran on.
C20_FailedTaskPutsNoUpdate ==
    \A t \in TaskIds :
       (\E j \in Terminal(enqueued, t) : enqueued[j].type = "error") =>
          Annotations(enqueued, t) = {}

====
